---- MODULE Spec2Model ----
(***************************************************************************)
(* The in-memory document store of the Mergington High School API          *)
(* (src/backend/database.py, class InMemoryCollection) and the callers     *)
(* that reach into it (src/backend/routers/announcements.py).              *)
(*                                                                         *)
(* Python values are tagged records [t, v]:                                *)
(*   None            [t |-> "null", v |-> <<>>]                            *)
(*   str             [t |-> "str",  v |-> sequence of code points]         *)
(*   list            [t |-> "list", v |-> sequence of values]              *)
(*   dict            [t |-> "map",  v |-> function from key names]         *)
(* A str is a sequence of code points so that <, > and sort are the        *)
(* lexicographic comparisons Python performs.                              *)
(*                                                                         *)
(* The dict self.data keeps insertion order, so it is a sequence of        *)
(* [k, v] entries with pairwise distinct keys.                             *)
(*                                                                         *)
(* Python passes objects by reference.  An object reference is a record    *)
(* [val, obj, at]: val is the object's content, obj says which object it   *)
(* is ("stored": the object bound in self.data at path `at`; "arg": the    *)
(* object the caller passed in; "new": an object created during the call). *)
(* The caller keeps one reference between calls (variable held): the       *)
(* document it passed to insert_one, the value it passed to update_one, or *)
(* a document it got back from find_one / find.                            *)
(*                                                                         *)
(* In the documents of the model schedule_details is a dict, its days a    *)
(* list of str and its times str, as in initial_activities; the values     *)
(* given to $push are str, which no caller can mutate afterwards.          *)
(*                                                                         *)
(* last is the latest call with its argument and outcome; live is the set  *)
(* of identifiers inserted and not removed since (history, kept beside the *)
(* store).  threads holds the frames of the announcement handlers that are *)
(* running: the handler's position, its arguments and its local variables. *)
(***************************************************************************)
EXTENDS Integers, Sequences, FiniteSets, TLC

VARIABLES data, held, last, live, threads

vars == <<data, held, last, live, threads>>

----------------------------------------------------------------------------
(* Python values *)

Null == [t |-> "null", v |-> <<>>]

Str(s) == [t |-> "str", v |-> s]

List(l) == [t |-> "list", v |-> l]

Map(m) == [t |-> "map", v |-> m]

EmptyDict == Map(<<>>)

IsList(x) == x.t = "list"

(* key in d *)
Has(d, key) == key \in DOMAIN d.v

(* d.get(key, default) *)
GetOr(d, key, default) == IF key \in DOMAIN d.v THEN d.v[key] ELSE default

(* d[key] = value, on the content of d *)
Put(d, key, value) == Map((key :> value) @@ d.v)

(* d.pop(key, None), on the content of d *)
Pop(d, key) == Map([f \in (DOMAIN d.v) \ {key} |-> d.v[f]])

(* x in l, for a list l *)
Contains(l, x) == \E i \in 1..Len(l.v) : l.v[i] = x

(* bool(x): an empty dict, an empty list, an empty str and None are falsy *)
Truthy(x) ==
  CASE x.t = "null" -> FALSE
    [] x.t = "map"  -> DOMAIN x.v # {}
    [] OTHER        -> x.v # <<>>

(* s < u on str contents: lexicographic order by code point *)
RECURSIVE StrLess(_, _)
StrLess(s, u) ==
  IF u = <<>> THEN FALSE
  ELSE IF s = <<>> THEN TRUE
  ELSE IF Head(s) # Head(u) THEN Head(s) < Head(u)
  ELSE StrLess(Tail(s), Tail(u))

----------------------------------------------------------------------------
(* Object references *)

NoPath == <<>>

Ref(value, which, path) == [val |-> value, obj |-> which, at |-> path]

(* a value the call itself creates: a literal, a comprehension, a copy *)
New(value) == Ref(value, "new", NoPath)

(* the same object handed on instead of a copy *)
Aliased(r) == r

(* copy.deepcopy: a new object with equal content, sharing nothing *)
deepcopy(r) == Ref(r.val, "new", NoPath)

----------------------------------------------------------------------------
(* The dict self.data *)

Keys(d) == {d[i].k : i \in 1..Len(d)}

IndexOf(d, key) == CHOOSE i \in 1..Len(d) : d[i].k = key

(* self.data[key] *)
Lookup(d, key) == d[IndexOf(d, key)].v

(* the new body merged into the one already stored under the key *)
StoreMerging(d, key, body) ==
  IF key \in Keys(d)
  THEN [d EXCEPT ![IndexOf(d, key)] =
          [k |-> key, v |-> Map(body.v @@ Lookup(d, key).v)]]
  ELSE Append(d, [k |-> key, v |-> body])

(* a new entry added even when the key is already stored *)
StoreAppending(d, key, body) == Append(d, [k |-> key, v |-> body])

(* self.data[key] = body: an existing key keeps its position *)
Store(d, key, body) ==
  IF key \in Keys(d)
  THEN [d EXCEPT ![IndexOf(d, key)] = [k |-> key, v |-> body]]
  ELSE Append(d, [k |-> key, v |-> body])

(* self.data.pop(key, None) *)
Remove(d, key) ==
  IF key \in Keys(d)
  THEN LET i == IndexOf(d, key)
       IN  SubSeq(d, 1, i - 1) \o SubSeq(d, i + 1, Len(d))
  ELSE d

(* r.setdefault(key, value): a key already present keeps its value *)
SetItemDefault(d, r, key, value) ==
  LET content == IF Has(r.val, key) THEN r.val ELSE Put(r.val, key, value)
  IN  [data |-> IF r.obj = "stored" THEN Store(d, r.at[1], content) ELSE d,
       ref  |-> Ref(content, r.obj, r.at)]

(* r[key] = value through the reference r: when r is the stored body the
   store changes with it *)
SetItem(d, r, key, value) ==
  LET content == Put(r.val, key, value)
  IN  [data |-> IF r.obj = "stored" THEN Store(d, r.at[1], content) ELSE d,
       ref  |-> Ref(content, r.obj, r.at)]

----------------------------------------------------------------------------
(* InMemoryCollection.find_one *)

find_one(d, query) ==
  IF Has(query, "_id") /\ query.v["_id"] \in Keys(d)
     /\ Truthy(Lookup(d, query.v["_id"]))
  THEN LET doc    == Ref(Lookup(d, query.v["_id"]), "stored", <<query.v["_id"]>>)
           result == deepcopy(doc)
           w      == SetItem(d, result, "_id", query.v["_id"])
       IN  [ret |-> w.ref, data |-> w.data]
  ELSE [ret |-> New(Null), data |-> d]

----------------------------------------------------------------------------
(* InMemoryCollection.insert_one *)

(* insert_one without the check of the identifier *)
insert_one_unchecked(d, document) ==
  LET doc_id == GetOr(document.val, "_id", Null)
  IN  [raised |-> FALSE,
       data |-> Store(d, doc_id, Pop(document.val, "_id")),
       document |-> document,
       inserted_id |-> doc_id]

(* insert_one that stores the caller's document itself: the pop and the
   binding act on the object that was passed in *)
insert_one_sharing(d, document) ==
  LET doc_id == GetOr(document.val, "_id", Null)
  IN  IF doc_id = Null
      THEN [raised |-> TRUE, data |-> d, document |-> document,
            inserted_id |-> Null]
      ELSE LET popped == Pop(document.val, "_id")
           IN  [raised |-> FALSE,
                data |-> Store(d, doc_id, popped),
                document |-> Ref(popped, "stored", <<doc_id>>),
                inserted_id |-> doc_id]

insert_one(d, document) ==
  LET doc_id == GetOr(document.val, "_id", Null)
  IN  IF doc_id = Null
      THEN [raised |-> TRUE, data |-> d, document |-> document,
            inserted_id |-> Null]
      ELSE LET doc_copy == deepcopy(document)
               popped   == Pop(doc_copy.val, "_id")
               same     == doc_copy.obj = document.obj
           IN  [raised |-> FALSE,
                data |-> Store(d, doc_id, popped),
                document |-> IF same THEN Ref(popped, "stored", <<doc_id>>)
                             ELSE document,
                inserted_id |-> doc_id]

----------------------------------------------------------------------------
(* InMemoryCollection.find *)

NoDays == List(<<>>)

EmptyStr == Str(<<>>)

(* doc.get("schedule_details", {}).get(name, default) *)
Detail(doc, name, default) ==
  GetOr(GetOr(doc, "schedule_details", EmptyDict), name, default)

(* days_query["$in"][0] on an empty list: IndexError, raised while the first
   document is examined *)
DaysRaises(query) ==
  /\ Has(query, "schedule_details.days")
  /\ Has(query.v["schedule_details.days"], "$in")
  /\ query.v["schedule_details.days"].v["$in"].v = <<>>

DaysMatch(doc, query) ==
  IF Has(query, "schedule_details.days")
     /\ Has(query.v["schedule_details.days"], "$in")
  THEN LET required_day == query.v["schedule_details.days"].v["$in"].v[1]
       IN  Contains(Detail(doc, "days", NoDays), required_day)
  ELSE TRUE

StartMatch(doc, query, match) ==
  IF Has(query, "schedule_details.start_time") /\ match
     /\ Has(query.v["schedule_details.start_time"], "$gte")
  THEN LET required_time == query.v["schedule_details.start_time"].v["$gte"]
           actual_time   == Detail(doc, "start_time", EmptyStr)
       IN  ~StrLess(actual_time.v, required_time.v)
  ELSE match

EndMatch(doc, query, match) ==
  IF Has(query, "schedule_details.end_time") /\ match
     /\ Has(query.v["schedule_details.end_time"], "$lte")
  THEN LET required_time == query.v["schedule_details.end_time"].v["$lte"]
           actual_time   == Detail(doc, "end_time", EmptyStr)
       IN  ~StrLess(required_time.v, actual_time.v)
  ELSE match

Matches(doc, query) ==
  EndMatch(doc, query, StartMatch(doc, query, DaysMatch(doc, query)))

(* the loop over self.data.items(), from entry i on *)
RECURSIVE FindLoop(_, _, _, _)
FindLoop(d, query, i, results) ==
  IF i > Len(d)
  THEN [raised |-> FALSE, ret |-> results, data |-> d]
  ELSE IF Matches(d[i].v, query)
       THEN LET doc    == Ref(d[i].v, "stored", <<d[i].k>>)
                result == deepcopy(doc)
                w      == SetItem(d, result, "_id", d[i].k)
            IN  FindLoop(w.data, query, i + 1, Append(results, w.ref))
       ELSE FindLoop(d, query, i + 1, results)

find(d, query) ==
  LET q == IF query = Null THEN EmptyDict ELSE query
  IN  IF d # <<>> /\ DaysRaises(q)
      THEN [raised |-> TRUE, ret |-> <<>>, data |-> d]
      ELSE FindLoop(d, q, 1, <<>>)

----------------------------------------------------------------------------
(* InMemoryCollection.update_one *)

(* the order in which a dict of fields is iterated *)
FieldOrder ==
  <<"_id", "name", "schedule_details", "tags",
    "message", "start_date", "expiration_date">>

Items(m) == SelectSeq(FieldOrder, LAMBDA f : f \in DOMAIN m.v)

(* "$push": doc[key] = [] when absent, then doc[key].append(value); append on
   a value that is no list raises AttributeError and leaves the fields
   handled so far changed *)
RECURSIVE PushLoop(_, _, _)
PushLoop(doc, push, keys) ==
  IF keys = <<>>
  THEN [raised |-> FALSE, doc |-> doc]
  ELSE LET key     == Head(keys)
           created == IF Has(doc, key) THEN doc ELSE Put(doc, key, List(<<>>))
       IN  IF IsList(created.v[key])
           THEN PushLoop(Put(created, key,
                             List(Append(created.v[key].v, push.v[key]))),
                         push, Tail(keys))
           ELSE [raised |-> TRUE, doc |-> created]

(* a pull that drops only the first element equal to the value *)
RECURSIVE PullLoopFirstOnly(_, _, _)
PullLoopFirstOnly(doc, pull, keys) ==
  IF keys = <<>>
  THEN doc
  ELSE LET key == Head(keys)
       IN  IF Has(doc, key) /\ IsList(doc.v[key])
           THEN LET items == doc.v[key].v
                    hits  == {i \in 1..Len(items) : items[i] = pull.v[key]}
                    first == CHOOSE i \in hits : \A j \in hits : i <= j
                IN  PullLoopFirstOnly(
                      IF hits = {} THEN doc
                      ELSE Put(doc, key,
                               List(SubSeq(items, 1, first - 1)
                                    \o SubSeq(items, first + 1, Len(items)))),
                      pull, Tail(keys))
           ELSE PullLoopFirstOnly(doc, pull, Tail(keys))

(* "$pull": doc[key] = [item for item in doc[key] if item != value] *)
RECURSIVE PullLoop(_, _, _)
PullLoop(doc, pull, keys) ==
  IF keys = <<>>
  THEN doc
  ELSE LET key == Head(keys)
       IN  IF Has(doc, key) /\ IsList(doc.v[key])
           THEN PullLoop(Put(doc, key,
                             List(SelectSeq(doc.v[key].v,
                                            LAMBDA item : item # pull.v[key]))),
                         pull, Tail(keys))
           ELSE PullLoop(doc, pull, Tail(keys))

(* "$set" that puts the given fields in the place of the document *)
RECURSIVE SetLoopReplacing(_, _, _)
SetLoopReplacing(doc, set, keys) ==
  IF keys = <<>>
  THEN doc
  ELSE SetLoopReplacing(Put(IF Len(keys) = Len(Items(set)) THEN EmptyDict ELSE doc,
                            Head(keys), set.v[Head(keys)]),
                        set, Tail(keys))

(* "$set": doc[key] = value *)
RECURSIVE SetLoop(_, _, _)
SetLoop(doc, set, keys) ==
  IF keys = <<>>
  THEN doc
  ELSE SetLoop(Put(doc, Head(keys), set.v[Head(keys)]), set, Tail(keys))

ApplyPush(doc, update) ==
  IF Has(update, "$push")
  THEN PushLoop(doc, update.v["$push"], Items(update.v["$push"]))
  ELSE [raised |-> FALSE, doc |-> doc]

ApplyPull(doc, update) ==
  IF Has(update, "$pull")
  THEN PullLoop(doc, update.v["$pull"], Items(update.v["$pull"]))
  ELSE doc

ApplySet(doc, update) ==
  IF Has(update, "$set")
  THEN SetLoop(doc, update.v["$set"], Items(update.v["$set"]))
  ELSE doc

(* a fourth operator block: "$unset" deletes the fields it names *)
ApplyOperatorsUnsetting(doc, update) ==
  LET pushed == ApplyPush(doc, update)
      unset(body) ==
        IF Has(update, "$unset")
        THEN Map([f \in DOMAIN body.v \ DOMAIN update.v["$unset"].v |-> body.v[f]])
        ELSE body
  IN  IF pushed.raised
      THEN pushed
      ELSE [raised |-> FALSE,
            doc |-> unset(ApplySet(ApplyPull(pushed.doc, update), update))]

(* what the three operator blocks do to the stored document, in the order
   the code runs them *)
ApplyOperators(doc, update) ==
  LET pushed == ApplyPush(doc, update)
  IN  IF pushed.raised
      THEN pushed
      ELSE [raised |-> FALSE,
            doc |-> ApplySet(ApplyPull(pushed.doc, update), update)]

(* where the value object passed under "$set" lives after the call:
   doc[key] = value binds the caller's object itself, no copy is taken *)
BoundAt(doc_id, update) ==
  IF Has(update, "$set") /\ Items(update.v["$set"]) # <<>>
  THEN <<doc_id, Head(Items(update.v["$set"]))>>
  ELSE NoPath

(* update_one that creates the document when the identifier is not stored *)
update_one_upserting(d, query, update) ==
  IF ~Has(query, "_id")
  THEN [raised |-> FALSE, modified_count |-> 0, data |-> d, bound |-> NoPath]
  ELSE LET doc_id  == query.v["_id"]
           doc     == IF doc_id \in Keys(d) THEN Lookup(d, doc_id) ELSE EmptyDict
           applied == ApplyOperators(doc, update)
       IN  IF applied.raised
           THEN [raised |-> TRUE, data |-> Store(d, doc_id, applied.doc),
                 bound |-> NoPath]
           ELSE [raised |-> FALSE, modified_count |-> 1,
                 data |-> Store(d, doc_id, applied.doc),
                 bound |-> BoundAt(doc_id, update)]

update_one(d, query, update) ==
  IF ~Has(query, "_id")
  THEN [raised |-> FALSE, modified_count |-> 0, data |-> d, bound |-> NoPath]
  ELSE LET doc_id == query.v["_id"]
       IN  IF doc_id \notin Keys(d)
           THEN [raised |-> FALSE, modified_count |-> 0, data |-> d,
                 bound |-> NoPath]
           ELSE LET applied == ApplyOperators(Lookup(d, doc_id), update)
                IN  IF applied.raised
                    THEN [raised |-> TRUE,
                          data |-> Store(d, doc_id, applied.doc),
                          bound |-> NoPath]
                    ELSE [raised |-> FALSE, modified_count |-> 1,
                          data |-> Store(d, doc_id, applied.doc),
                          bound |-> BoundAt(doc_id, update)]

----------------------------------------------------------------------------
(* InMemoryCollection.count_documents *)

count_documents(d, query) ==
  IF query = Null \/ query = EmptyDict
  THEN [raised |-> FALSE, ret |-> Len(d)]
  ELSE LET found == find(d, query)
       IN  [raised |-> found.raised, ret |-> Len(found.ret)]

----------------------------------------------------------------------------
(* InMemoryCollection.aggregate *)

DayEntry(day) == Map("_id" :> day)

(* for day in doc["schedule_details"]["days"]: append if not yet in results *)
RECURSIVE DaysLoop(_, _)
DaysLoop(days, results) ==
  IF days = <<>>
  THEN results
  ELSE DaysLoop(Tail(days),
                IF \E i \in 1..Len(results) : results[i] = DayEntry(Head(days))
                THEN results
                ELSE Append(results, DayEntry(Head(days))))

RECURSIVE AggregateLoop(_, _, _)
AggregateLoop(d, i, results) ==
  IF i > Len(d)
  THEN results
  ELSE LET doc == d[i].v
       IN  IF Has(doc, "schedule_details")
              /\ Has(doc.v["schedule_details"], "days")
           THEN AggregateLoop(d, i + 1,
                              DaysLoop(doc.v["schedule_details"].v["days"].v,
                                       results))
           ELSE AggregateLoop(d, i + 1, results)

(* list.sort(key=...): stable, ascending by x["_id"] *)
(* the comparison of the sort turned around *)
RECURSIVE InsertSortedDescending(_, _)
InsertSortedDescending(sorted, x) ==
  IF sorted = <<>>
  THEN <<x>>
  ELSE IF StrLess(Head(sorted).v["_id"].v, x.v["_id"].v)
       THEN <<x>> \o sorted
       ELSE <<Head(sorted)>> \o InsertSortedDescending(Tail(sorted), x)

RECURSIVE InsertSorted(_, _)
InsertSorted(sorted, x) ==
  IF sorted = <<>>
  THEN <<x>>
  ELSE IF StrLess(x.v["_id"].v, Head(sorted).v["_id"].v)
       THEN <<x>> \o sorted
       ELSE <<Head(sorted)>> \o InsertSorted(Tail(sorted), x)

RECURSIVE Sorted(_)
Sorted(results) ==
  IF results = <<>>
  THEN <<>>
  ELSE InsertSorted(Sorted(SubSeq(results, 1, Len(results) - 1)),
                    results[Len(results)])

aggregate(d, pipeline) == Sorted(AggregateLoop(d, 1, <<>>))

----------------------------------------------------------------------------
(* Bounds of the model *)

(* a $push or a caller's append is taken only while the list is shorter *)
MaxLen == 2

(* operator keys in one update mapping *)
MaxOps == 2

----------------------------------------------------------------------------
(* Sample values *)

a == Str(<<97>>)

b == Str(<<98>>)

x == Str(<<120>>)

Friday == Str(<<70, 114, 105>>)

Monday == Str(<<77, 111, 110>>)

Tuesday == Str(<<84, 117, 101>>)

T0800 == Str(<<48, 56, 58, 48, 48>>)

T0900 == Str(<<48, 57, 58, 48, 48>>)

T1000 == Str(<<49, 48, 58, 48, 48>>)

T1100 == Str(<<49, 49, 58, 48, 48>>)

Ids == {a, b}

IdQuery(k) == Map("_id" :> k)

(* documents of a collection without schedules *)
PlainDocs ==
  {Map("_id" :> k) : k \in Ids}
  \cup {Map(("_id" :> k) @@ ("tags" :> List(<<a>>))) : k \in Ids}
  \cup {Map("tags" :> List(<<a>>)), Map(("_id" :> Null) @@ ("tags" :> List(<<a>>)))}

(* queries by identifier, with and without other fields, and without one *)
KeyQueries ==
  {IdQuery(k) : k \in Ids}
  \cup {Map(("_id" :> a) @@ ("tags" :> List(<<b>>))), Map("tags" :> List(<<a>>))}

UpdateQueries ==
  {IdQuery(k) : k \in Ids} \cup {Map("tags" :> List(<<a>>))}

OpNames == {"$push", "$pull", "$set", "$unset"}

ArgsOf(op) ==
  CASE op = "$push" -> {Map("tags" :> b)}
    [] op = "$pull" -> {Map("tags" :> b)}
    [] op = "$set"  -> {Map("tags" :> List(<<a>>)), Map("tags" :> x)}
    [] OTHER        -> {Map("tags" :> EmptyStr)}

AllArgs == UNION {ArgsOf(op) : op \in OpNames}

UpdatesOver(S) ==
  {Map(f) : f \in {g \in [S -> AllArgs] : \A op \in S : g[op] \in ArgsOf(op)}}

Updates ==
  UNION {UpdatesOver(S) : S \in {T \in SUBSET OpNames : Cardinality(T) <= MaxOps}}

PlainQueries ==
  {Null, EmptyDict,
   Map("schedule_details.end_time" :> Map("$lte" :> T0900)),
   Map("schedule_details.days" :> Map("$in" :> List(<<Monday>>)))}

Pipelines == {List(<<>>), List(<<Map("$unwind" :> x)>>)}

----------------------------------------------------------------------------
(* What the caller does with the object it holds *)

Nothing == [ref |-> New(Null), src |-> "none"]

(* the mutations a caller can make on an object with content val:
   r[key] = value at the top, or below a path of keys; r.append(value) on a
   list below a path of keys *)
Mutations(val) ==
  IF val.t = "list"
  THEN {[path |-> <<>>, kind |-> "append", key |-> "", value |-> b]}
  ELSE IF val.t = "map"
  THEN {[path |-> <<>>, kind |-> "set", key |-> "tags", value |-> List(<<b>>)]}
       \cup (IF Has(val, "tags") /\ IsList(val.v["tags"])
             THEN {[path |-> <<"tags">>, kind |-> "append", key |-> "", value |-> b]}
             ELSE {})
       \cup (IF Has(val, "schedule_details")
             THEN {[path |-> <<"schedule_details">>, kind |-> "set",
                    key |-> "start_time", value |-> T1100]}
             ELSE {})
       \cup (IF Has(val, "schedule_details")
                /\ Has(val.v["schedule_details"], "days")
             THEN {[path |-> <<"schedule_details", "days">>, kind |-> "append",
                    key |-> "", value |-> Tuesday]}
             ELSE {})
  ELSE {}

RECURSIVE At(_, _)
At(val, path) == IF path = <<>> THEN val ELSE At(val.v[Head(path)], Tail(path))

RECURSIVE Mutated(_, _, _)
Mutated(val, path, m) ==
  IF path = <<>>
  THEN IF m.kind = "append" THEN List(Append(val.v, m.value))
       ELSE Put(val, m.key, m.value)
  ELSE Put(val, Head(path), Mutated(val.v[Head(path)], Tail(path), m))

(* the stored object at a path <<key>> or <<key, field>> gets a new content *)
WriteAt(d, at, content) ==
  IF Len(at) = 1
  THEN Store(d, at[1], content)
  ELSE Store(d, at[1], Put(Lookup(d, at[1]), at[2], content))

----------------------------------------------------------------------------
(* State machine: one collection and one caller *)

Call(name, arg, raised, ret, aux) ==
  [op |-> name, arg |-> arg, raised |-> raised, ret |-> ret, aux |-> aux]

(* the frame of a handler that is not running *)
Idle ==
  [pc |-> "idle", username |-> Null, announcement_id |-> Null,
   announcement |-> Null, update_fields |-> EmptyDict, status |-> 0,
   ret |-> Null]

NoThreads == [update_announcement |-> Idle, delete_announcement |-> Idle]

Init ==
  /\ data = <<>>
  /\ held = Nothing
  /\ last = Call("init", Null, FALSE, Null, Null)
  /\ live = {}
  /\ threads = NoThreads

Insert(docs) ==
  \E doc \in docs :
    LET r == insert_one(data, Ref(doc, "arg", NoPath))
    IN  /\ data' = r.data
        /\ held' = [ref |-> r.document, src |-> "insert_one"]
        /\ last' = Call("insert_one", doc, r.raised, r.inserted_id,
                        IF ~r.raised /\ r.inserted_id \in Keys(data)
                        THEN Lookup(data, r.inserted_id) ELSE Null)
        /\ live' = IF r.raised THEN live ELSE live \cup {r.inserted_id}
        /\ UNCHANGED threads

FindOne(queries) ==
  \E q \in queries :
    LET r == find_one(data, q)
    IN  /\ data' = r.data
        /\ held' = [ref |-> r.ret, src |-> "find_one"]
        /\ last' = Call("find_one", q, FALSE, r.ret.val, Null)
        /\ UNCHANGED <<live, threads>>

Find(queries) ==
  \E q \in queries :
    LET r == find(data, q)
    IN  /\ data' = r.data
        /\ \/ /\ r.ret = <<>>
              /\ held' = Nothing
           \/ \E i \in 1..Len(r.ret) : held' = [ref |-> r.ret[i], src |-> "find"]
        /\ last' = Call("find", q, r.raised,
                        [i \in 1..Len(r.ret) |-> r.ret[i].val], Null)
        /\ UNCHANGED <<live, threads>>

GrowsWithin(d, q, u) ==
  Has(u, "$push") /\ Has(q, "_id") /\ q.v["_id"] \in Keys(d)
    => \A f \in DOMAIN u.v["$push"].v :
         LET doc == Lookup(d, q.v["_id"])
         IN  Has(doc, f) /\ IsList(doc.v[f]) => Len(doc.v[f].v) < MaxLen

UpdateOne(queries, updates) ==
  \E q \in queries, u \in updates :
    /\ GrowsWithin(data, q, u)
    /\ LET r == update_one(data, q, u)
       IN  /\ data' = r.data
           /\ held' = IF r.bound = NoPath THEN Nothing
                      ELSE [ref |-> Ref(At(Lookup(r.data, r.bound[1]), <<r.bound[2]>>),
                                        "stored", r.bound),
                            src |-> "update_one"]
           /\ last' = Call("update_one", <<q, u>>, r.raised,
                           IF r.raised THEN Null ELSE r.modified_count, Null)
           /\ UNCHANGED <<live, threads>>

CountDocuments(queries) ==
  \E q \in queries :
    LET r == count_documents(data, q)
    IN  /\ last' = Call("count_documents", q, r.raised,
                        IF r.raised THEN Null ELSE r.ret, Null)
        /\ held' = Nothing
        /\ UNCHANGED <<data, live, threads>>

Aggregate(pipelines) ==
  \E p \in pipelines :
    /\ last' = Call("aggregate", p, FALSE, aggregate(data, p), Null)
    /\ held' = Nothing
    /\ UNCHANGED <<data, live, threads>>

(* announcements.py: announcements_collection.data.pop(announcement_id, None) *)
RemoveDirect(ids) ==
  \E k \in ids :
    /\ data' = Remove(data, k)
    /\ held' = Nothing
    /\ last' = Call("pop", k, FALSE, Null, Null)
    /\ live' = live \ {k}
    /\ UNCHANGED threads

Mutate ==
  \E m \in Mutations(held.ref.val) :
    /\ m.kind = "append" => Len(At(held.ref.val, m.path).v) < MaxLen
    /\ LET content == Mutated(held.ref.val, m.path, m)
       IN  /\ held' = [held EXCEPT !.ref.val = content]
           /\ data' = IF held.ref.obj = "stored"
                      THEN WriteAt(data, held.ref.at, content)
                      ELSE data
           /\ last' = Call("mutate", m, FALSE, Null, held.src)
           /\ UNCHANGED <<live, threads>>

Next ==
  \/ Insert(PlainDocs)
  \/ FindOne(KeyQueries)
  \/ Find(PlainQueries)
  \/ UpdateOne(UpdateQueries, Updates)
  \/ CountDocuments(PlainQueries)
  \/ Aggregate(Pipelines)
  \/ RemoveDirect(Ids)
  \/ Mutate

Spec == Init /\ [][Next]_vars

----------------------------------------------------------------------------
(* The activities collection: documents with schedule_details, read through
   find, count_documents and aggregate *)

Schedule(days, start_time, end_time) ==
  Map(("days" :> List(days)) @@ ("start_time" :> start_time)
      @@ ("end_time" :> end_time))

Schedules ==
  {Schedule(<<Monday, Friday>>, T0800, T0900),
   Schedule(<<Friday>>, T1000, T1100),
   Map("days" :> List(<<Tuesday>>))}

ActivityDocs ==
  {Map(("_id" :> k) @@ ("schedule_details" :> sd)) : k \in Ids, sd \in Schedules}
  \cup {Map("_id" :> k) : k \in Ids}
  \cup {Map(("_id" :> k) @@ ("tags" :> List(<<a>>))) : k \in Ids}

DaysFilters ==
  {Map("$in" :> List(<<Monday>>)), Map("$in" :> List(<<Friday, Monday>>)),
   Map("$in" :> List(<<>>)), Map("$all" :> List(<<Monday>>))}

StartFilters == {Map("$gte" :> T0900), Map("$gte" :> EmptyStr)}

EndFilters == {Map("$lte" :> T0900)}

Absent == {Null}

(* a query with the filters that are not Absent *)
Query(days, start, end) ==
  Map([f \in {g \in {"schedule_details.days", "schedule_details.start_time",
                     "schedule_details.end_time"} :
                CASE g = "schedule_details.days"       -> days # Null
                  [] g = "schedule_details.start_time" -> start # Null
                  [] OTHER                             -> end # Null}
       |-> CASE f = "schedule_details.days"       -> days
             [] f = "schedule_details.start_time" -> start
             [] OTHER                             -> end])

ActivityQueries ==
  {Null}
  \cup {Query(days, start, end) : days \in DaysFilters \cup Absent,
                                  start \in StartFilters \cup Absent,
                                  end \in EndFilters \cup Absent}

NextActivities ==
  \/ Insert(ActivityDocs)
  \/ FindOne(KeyQueries)
  \/ Find(ActivityQueries)
  \/ CountDocuments(ActivityQueries)
  \/ Aggregate(Pipelines)
  \/ RemoveDirect(Ids)
  \/ Mutate

SpecActivities == Init /\ [][NextActivities]_vars

----------------------------------------------------------------------------
(* update_one on documents with longer lists, fields that hold no list, and
   updates that name the identifier field *)

LongTags == List(<<a, b, a, x>>)

FieldDocs ==
  {Map(("_id" :> a) @@ ("tags" :> LongTags)),
   Map(("_id" :> b) @@ ("name" :> x))}

IdQueries == {IdQuery(k) : k \in Ids}

FieldUpdates ==
  {Map("$pull" :> Map("tags" :> a)),
   Map("$pull" :> Map("tags" :> b)),
   Map("$pull" :> Map("name" :> x)),
   Map("$push" :> Map("_id" :> b)),
   Map("$set" :> Map("_id" :> x))}

NextFields ==
  \/ Insert(FieldDocs)
  \/ FindOne(IdQueries)
  \/ Find({Null})
  \/ UpdateOne(IdQueries, FieldUpdates)
  \/ RemoveDirect(Ids)

SpecFields == Init /\ [][NextFields]_vars

----------------------------------------------------------------------------
(* The announcements router: create_announcement, update_announcement,
   delete_announcement and get_all_announcements over announcements_collection
   (variable data) and teachers_collection.  Nothing in the router writes to
   teachers_collection, so it is the collection init_database leaves. *)

principal == Str(<<112>>)

mchen == Str(<<109>>)

student == Str(<<115>>)

hello == Str(<<104, 105>>)

bye == Str(<<98, 121, 101>>)

(* "2026-02-01", "2026-02-28", and "2026-02-30", which is no date *)
D0201 == Str(<<50, 48, 50, 54, 45, 48, 50, 45, 48, 49>>)

D0228 == Str(<<50, 48, 50, 54, 45, 48, 50, 45, 50, 56>>)

D0230 == Str(<<50, 48, 50, 54, 45, 48, 50, 45, 51, 48>>)

(* "2026-02-01T08:00:00Z" *)
utcnow ==
  Str(<<50, 48, 50, 54, 45, 48, 50, 45, 48, 49, 84, 48, 56, 58, 48, 48, 58,
        48, 48, 90>>)

(* init_database: teachers_collection.insert_one({"_id": username, **teacher}) *)
Teacher(username, role) ==
  Map(("_id" :> username) @@ ("username" :> username) @@ ("role" :> role))

RECURSIVE InsertAll(_, _)
InsertAll(d, documents) ==
  IF documents = <<>> THEN d
  ELSE InsertAll(insert_one(d, Ref(Head(documents), "arg", NoPath)).data,
                 Tail(documents))

teachers_collection ==
  InsertAll(<<>>, <<Teacher(mchen, Str(<<116>>)), Teacher(principal, Str(<<97>>))>>)

initial_announcements ==
  <<Map(("_id" :> a) @@ ("message" :> hello) @@ ("start_date" :> D0201)
        @@ ("expiration_date" :> D0228) @@ ("created_by" :> principal)
        @@ ("created_at" :> utcnow))>>

(* datetime.fromisoformat on a str of the form YYYY-MM-DD: ValueError unless
   it has ten characters, digits around two hyphens, and names a day of the
   calendar.  The other ISO 8601 forms are not among the inputs. *)
IsDigit(c) == c \in 48..57

DigitsAt(s, i, j) == \A n \in i..j : IsDigit(s[n])

RECURSIVE NumberAt(_, _, _)
NumberAt(s, i, j) ==
  IF i > j THEN 0 ELSE NumberAt(s, i, j - 1) * 10 + (s[j] - 48)

IsLeap(year) == (year % 4 = 0 /\ year % 100 # 0) \/ year % 400 = 0

DaysInMonth(year, month) ==
  CASE month \in {4, 6, 9, 11} -> 30
    [] month = 2 -> IF IsLeap(year) THEN 29 ELSE 28
    [] OTHER -> 31

fromisoformat_raises(date_string) ==
  LET s == date_string.v
  IN  ~(/\ Len(s) = 10
        /\ DigitsAt(s, 1, 4) /\ s[5] = 45
        /\ DigitsAt(s, 6, 7) /\ s[8] = 45
        /\ DigitsAt(s, 9, 10)
        /\ NumberAt(s, 1, 4) >= 1
        /\ NumberAt(s, 6, 7) \in 1..12
        /\ NumberAt(s, 9, 10) \in
             1..DaysInMonth(NumberAt(s, 1, 4), NumberAt(s, 6, 7)))

(* a request body: the three attributes of AnnouncementCreate /
   AnnouncementUpdate, None for one that was not supplied *)
Announcement(message, start_date, expiration_date) ==
  Map(("message" :> message) @@ ("start_date" :> start_date)
      @@ ("expiration_date" :> expiration_date))

(* verify_authenticated_user lets every username pass *)
verify_any_user(username) == [raised |-> FALSE, status_code |-> 200]

(* verify_authenticated_user: 401 unless find_one gives a truthy teacher *)
verify_authenticated_user(username) ==
  LET teacher == find_one(teachers_collection, IdQuery(username)).ret.val
  IN  IF ~Truthy(teacher)
      THEN [raised |-> TRUE, status_code |-> 401]
      ELSE [raised |-> FALSE, status_code |-> 200]

(* create_announcement, with the identifier uuid4 gives and the time of
   the call *)
create_announcement(d, announcement, username, announcement_id, now) ==
  LET failed(code) == [status |-> code, ret |-> Null, data |-> d]
      start_date == announcement.v["start_date"]
      expiration_date == announcement.v["expiration_date"]
  IN  IF verify_authenticated_user(username).raised THEN failed(401)
      ELSE IF fromisoformat_raises(expiration_date) THEN failed(400)
      ELSE IF Truthy(start_date) /\ fromisoformat_raises(start_date)
      THEN failed(400)
      ELSE LET announcement_doc ==
                 Map(("_id" :> announcement_id)
                     @@ ("message" :> announcement.v["message"])
                     @@ ("start_date" :> start_date)
                     @@ ("expiration_date" :> expiration_date)
                     @@ ("created_by" :> username)
                     @@ ("created_at" :> now))
               r == insert_one(d, Ref(announcement_doc, "arg", NoPath))
           IN  [status |-> 200, ret |-> r.document.val, data |-> r.data]

(* raise HTTPException(status_code=...): the handler ends *)
HTTPException(frame, status_code) ==
  [frame EXCEPT !.pc = "done", !.status = status_code, !.ret = Null]

Return(frame, value) ==
  [frame EXCEPT !.pc = "done", !.status = 200, !.ret = value]

Begin(username, announcement_id, announcement) ==
  [Idle EXCEPT !.pc = "verify", !.username = username,
               !.announcement_id = announcement_id,
               !.announcement = announcement]

(* update_announcement, lines 142-159: the update document, or a 400 *)
BuildUpdateFields(announcement) ==
  LET message == announcement.v["message"]
      start_date == announcement.v["start_date"]
      expiration_date == announcement.v["expiration_date"]
      with_message == IF message # Null
                      THEN Put(EmptyDict, "message", message) ELSE EmptyDict
      with_start == IF start_date # Null
                    THEN Put(with_message, "start_date", start_date)
                    ELSE with_message
      with_expiration == IF expiration_date # Null
                         THEN Put(with_start, "expiration_date", expiration_date)
                         ELSE with_start
  IN  IF start_date # Null /\ fromisoformat_raises(start_date)
      THEN [raised |-> TRUE, update_fields |-> with_message]
      ELSE IF expiration_date # Null /\ fromisoformat_raises(expiration_date)
      THEN [raised |-> TRUE, update_fields |-> with_start]
      ELSE [raised |-> ~Truthy(with_expiration),
            update_fields |-> with_expiration]

(* one step of update_announcement: up to and including its next operation
   on a collection *)
update_announcement_step(frame, d) ==
  LET query == IdQuery(frame.announcement_id)
      same(f) == [frame |-> f, data |-> d, modified_count |-> Null]
  IN  CASE frame.pc = "verify" ->
             IF verify_authenticated_user(frame.username).raised
             THEN same(HTTPException(frame, 401))
             ELSE same([frame EXCEPT !.pc = "find_one"])
        [] frame.pc = "find_one" ->
             LET existing == find_one(d, query).ret.val
                 built    == BuildUpdateFields(frame.announcement)
             IN  IF ~Truthy(existing) THEN same(HTTPException(frame, 404))
                 ELSE IF built.raised THEN same(HTTPException(frame, 400))
                 ELSE same([frame EXCEPT !.pc = "update_one",
                                         !.update_fields = built.update_fields])
        [] frame.pc = "update_one" ->
             LET r == update_one(d, query, Map("$set" :> frame.update_fields))
             IN  [frame |-> [frame EXCEPT !.pc = "return"], data |-> r.data,
                  modified_count |-> r.modified_count]
        [] frame.pc = "return" ->
             same(Return(frame, find_one(d, query).ret.val))
        [] OTHER -> same(frame)

Deleted ==
  Map(("status" :> Str(<<111, 107>>)) @@ ("message" :> Str(<<111, 107>>)))

(* one step of delete_announcement *)
delete_announcement_step(frame, d) ==
  LET query == IdQuery(frame.announcement_id)
  IN  CASE frame.pc = "verify" ->
             IF verify_authenticated_user(frame.username).raised
             THEN [frame |-> HTTPException(frame, 401), data |-> d]
             ELSE [frame |-> [frame EXCEPT !.pc = "find_one"], data |-> d]
        [] frame.pc = "find_one" ->
             IF ~Truthy(find_one(d, query).ret.val)
             THEN [frame |-> HTTPException(frame, 404), data |-> d]
             ELSE [frame |-> [frame EXCEPT !.pc = "pop"], data |-> d]
        [] frame.pc = "pop" ->
             [frame |-> Return(frame, Deleted),
              data |-> Remove(d, frame.announcement_id)]
        [] OTHER -> [frame |-> frame, data |-> d]

(* a handler run from its first step to its response, nothing in between *)
RECURSIVE update_announcement(_, _)
update_announcement(frame, d) ==
  IF frame.pc = "done" THEN [frame |-> frame, data |-> d]
  ELSE LET r == update_announcement_step(frame, d)
       IN  update_announcement(r.frame, r.data)

RECURSIVE delete_announcement(_, _)
delete_announcement(frame, d) ==
  IF frame.pc = "done" THEN [frame |-> frame, data |-> d]
  ELSE LET r == delete_announcement_step(frame, d)
       IN  delete_announcement(r.frame, r.data)

(* get_all_announcements *)
get_all_announcements(d, username) ==
  IF verify_authenticated_user(username).raised
  THEN [status |-> 401, ret |-> Null]
  ELSE LET announcements == find(d, EmptyDict).ret
       IN  [status |-> 200,
            ret |-> List([i \in 1..Len(announcements) |-> announcements[i].val])]

Usernames == {principal, student}

CreateRequests ==
  {Announcement(bye, start_date, expiration_date) :
     start_date \in {Null, D0230}, expiration_date \in {D0228, D0230}}

UpdateRequests ==
  {Announcement(message, start_date, expiration_date) :
     message \in {Null, bye}, start_date \in {Null, D0228, D0230},
     expiration_date \in {Null, D0201}}

(* the state init_database leaves *)
InitDatabase ==
  /\ data = InsertAll(<<>>, initial_announcements)
  /\ held = Nothing
  /\ last = Call("init_database", Null, FALSE, Null, Null)
  /\ live = {initial_announcements[i].v["_id"] :
               i \in 1..Len(initial_announcements)}
  /\ threads = NoThreads

(* requests served one after the other *)
CreateAnnouncement ==
  \E username \in Usernames, announcement \in CreateRequests,
     announcement_id \in Ids \ Keys(data) :
    LET r == create_announcement(data, announcement, username,
                                 announcement_id, utcnow)
    IN  /\ data' = r.data
        /\ last' = Call("create_announcement", <<username, announcement>>,
                        r.status # 200, r.ret, r.status)
        /\ live' = IF r.status = 200 THEN live \cup {announcement_id} ELSE live
        /\ held' = Nothing
        /\ UNCHANGED threads

UpdateAnnouncement ==
  \E username \in Usernames, announcement_id \in Ids,
     announcement \in UpdateRequests :
    LET r == update_announcement(Begin(username, announcement_id, announcement),
                                 data)
    IN  /\ data' = r.data
        /\ last' = Call("update_announcement",
                        <<username, announcement_id, announcement>>,
                        r.frame.status # 200, r.frame.ret, r.frame.status)
        /\ held' = Nothing
        /\ UNCHANGED <<live, threads>>

DeleteAnnouncement ==
  \E username \in Usernames, announcement_id \in Ids :
    LET r == delete_announcement(Begin(username, announcement_id, Null), data)
    IN  /\ data' = r.data
        /\ last' = Call("delete_announcement", <<username, announcement_id>>,
                        r.frame.status # 200, r.frame.ret, r.frame.status)
        /\ live' = IF r.frame.status = 200 THEN live \ {announcement_id}
                   ELSE live
        /\ held' = Nothing
        /\ UNCHANGED threads

GetAllAnnouncements ==
  \E username \in Usernames :
    LET r == get_all_announcements(data, username)
    IN  /\ last' = Call("get_all_announcements", <<username>>,
                        r.status # 200, r.ret, r.status)
        /\ held' = Nothing
        /\ UNCHANGED <<data, live, threads>>

NextAnnouncements ==
  \/ CreateAnnouncement
  \/ UpdateAnnouncement
  \/ DeleteAnnouncement
  \/ GetAllAnnouncements

SpecAnnouncements == InitDatabase /\ [][NextAnnouncements]_vars

----------------------------------------------------------------------------
(* update_announcement and delete_announcement running in two threads of the
   server's pool: each step is one operation on a collection, and the steps
   of the two handlers interleave in any order *)

RaceRequests == {Announcement(bye, Null, Null), Announcement(Null, D0230, Null)}

(* the handler is called and verifies the user, which reads only
   teachers_collection *)
BeginUpdate ==
  \E username \in Usernames, announcement_id \in Ids,
     announcement \in RaceRequests :
    /\ threads.update_announcement.pc \in {"idle", "done"}
    /\ threads' = [threads EXCEPT !.update_announcement =
                     update_announcement_step(
                       Begin(username, announcement_id, announcement), data).frame]
    /\ last' = Call("update_announcement", <<"verify", announcement_id>>,
                    FALSE, Null, Null)
    /\ held' = Nothing
    /\ UNCHANGED <<data, live>>

StepUpdate ==
  LET frame == threads.update_announcement
      r     == update_announcement_step(frame, data)
  IN  /\ frame.pc \notin {"idle", "done"}
      /\ data' = r.data
      /\ threads' = [threads EXCEPT !.update_announcement = r.frame]
      /\ last' = Call("update_announcement", <<frame.pc, frame.announcement_id>>,
                      FALSE, r.modified_count, Null)
      /\ held' = Nothing
      /\ UNCHANGED live

BeginDelete ==
  \E username \in Usernames, announcement_id \in Ids :
    /\ threads.delete_announcement.pc \in {"idle", "done"}
    /\ threads' = [threads EXCEPT !.delete_announcement =
                     delete_announcement_step(
                       Begin(username, announcement_id, Null), data).frame]
    /\ last' = Call("delete_announcement", <<"verify", announcement_id>>,
                    FALSE, Null, Null)
    /\ held' = Nothing
    /\ UNCHANGED <<data, live>>

StepDelete ==
  LET frame == threads.delete_announcement
      r     == delete_announcement_step(frame, data)
  IN  /\ frame.pc \notin {"idle", "done"}
      /\ data' = r.data
      /\ threads' = [threads EXCEPT !.delete_announcement = r.frame]
      /\ last' = Call("delete_announcement", <<frame.pc, frame.announcement_id>>,
                      FALSE, Null, Null)
      /\ live' = IF frame.pc = "pop" THEN live \ {frame.announcement_id} ELSE live
      /\ held' = Nothing

NextThreads ==
  \/ CreateAnnouncement
  \/ BeginUpdate
  \/ StepUpdate
  \/ BeginDelete
  \/ StepDelete

SpecThreads == InitDatabase /\ [][NextThreads]_vars

----------------------------------------------------------------------------
(* Properties *)

HasId(doc) == Has(doc, "_id") /\ doc.v["_id"] # Null

Stored(d, q) == Has(q, "_id") /\ q.v["_id"] \in Keys(d)

(* C1: round trip.  After insert_one(d) with a non-null identifier k, the
   next find_one({_id: k}) returns a document equal to d, also when the
   identifier is the only field of d. *)
C1_RoundTrip ==
  (last.op = "insert_one" /\ ~last.raised)
    => find_one(data, IdQuery(last.ret)).ret.val = last.arg

(* C2: read isolation.  A document returned by find_one or find is an
   independent deep copy: the read leaves the store as it was, the returned
   object is no stored object, and when the caller mutates it at any depth
   the store is unchanged and every find_one / find returns what it
   returned before the mutation. *)
C2_ReadIsolation ==
  [][/\ last'.op \in {"find_one", "find"}
          => data' = data /\ held'.ref.obj # "stored"
     /\ (last'.op = "mutate" /\ last'.aux \in {"find_one", "find"})
          => /\ data' = data
             /\ \A q \in KeyQueries :
                  find_one(data', q).ret.val = find_one(data, q).ret.val
             /\ \A q \in ActivityQueries :
                  LET before == find(data, q)
                      after  == find(data', q)
                  IN  before.raised = after.raised
                      /\ Len(before.ret) = Len(after.ret)
                      /\ \A i \in 1..Len(before.ret) :
                           before.ret[i].val = after.ret[i].val]_vars

(* C2 witness: the caller appended to the nested days list of a document it
   got from find, and the store still holds the list as it was. *)
C2_Witness ==
  /\ last.op = "mutate" /\ last.aux = "find"
  /\ last.arg.path = <<"schedule_details", "days">>
  /\ held.ref.val.v["_id"] \in Keys(data)
  /\ Lookup(data, held.ref.val.v["_id"])
       # Pop(held.ref.val, "_id")

(* C3: find_one looks up by identifier only.  It returns not-found exactly
   when the query has no identifier field or the identifier is no key of the
   store; otherwise it returns the stored document with the identifier
   re-attached, whatever else the query holds. *)
C3_IdentifierOnly ==
  last.op = "find_one"
    => /\ last.ret = Null <=> ~Stored(data, last.arg)
       /\ Stored(data, last.arg)
            => last.ret = Put(Lookup(data, last.arg.v["_id"]),
                              "_id", last.arg.v["_id"])

ElementOf(value, field) == IsList(field) /\ Contains(field, value)

(* C4: $push, then $pull, then $set.  After update_one on a stored
   identifier, a value pushed onto and pulled from the same field in that
   call is no element of the field (unless $set names the field too), and
   every field named under $set holds the value given there. *)
C4_OperatorOrder ==
  (last.op = "update_one" /\ Stored(data, last.arg[1]))
    => LET u   == last.arg[2]
           doc == Lookup(data, last.arg[1].v["_id"])
       IN  /\ (Has(u, "$push") /\ Has(u, "$pull"))
                => \A f \in (DOMAIN u.v["$push"].v) \cap (DOMAIN u.v["$pull"].v) :
                     (/\ u.v["$push"].v[f] = u.v["$pull"].v[f]
                      /\ ~(Has(u, "$set") /\ Has(u.v["$set"], f)))
                       => Has(doc, f) /\ ~ElementOf(u.v["$push"].v[f], doc.v[f])
           /\ Has(u, "$set")
                => \A f \in DOMAIN u.v["$set"].v :
                     Has(doc, f) /\ doc.v[f] = u.v["$set"].v[f]

(* C5: update_one reports modified-count 1 exactly when the query holds an
   identifier that is a key of the store, and 0 otherwise; when it reports 0
   the store is unchanged and no document is created. *)
C5_ModifiedCount ==
  [][last'.op = "update_one"
       => /\ (~last'.raised /\ last'.ret = 1) <=> Stored(data, last'.arg[1])
          /\ ~Stored(data, last'.arg[1])
               => ~last'.raised /\ last'.ret = 0 /\ data' = data]_vars

(* C6: inserting under an identifier that is already stored raises nothing
   and overwrites: the stored body is the new document's body, the number of
   stored documents does not grow, and the documents under other identifiers
   are unchanged. *)
C6_Overwrite ==
  [][(last'.op = "insert_one" /\ HasId(last'.arg))
       => LET k == last'.arg.v["_id"]
          IN  /\ ~last'.raised
              /\ Lookup(data', k) = Pop(last'.arg, "_id")
              /\ Keys(data') = Keys(data) \cup {k}
              /\ k \in Keys(data) => Len(data') = Len(data)
              /\ Len(data') = Cardinality(Keys(data'))
              /\ \A j \in Keys(data) \ {k} :
                   Lookup(data', j) = Lookup(data, j)]_vars

(* C6 witness: a document with tags was overwritten by one without, while
   another identifier is stored too. *)
C6_Witness ==
  /\ last.op = "insert_one" /\ ~last.raised
  /\ last.aux # Null /\ Has(last.aux, "tags")
  /\ ~Has(last.arg, "tags")
  /\ Len(data) = 2

(* C7: insert_one raises exactly when the identifier field is absent or
   null, and then leaves the store unchanged; otherwise it returns the
   identifier. *)
C7_InsertNeedsId ==
  [][last'.op = "insert_one"
       => /\ last'.raised <=> ~HasId(last'.arg)
          /\ ~HasId(last'.arg) => data' = data
          /\ HasId(last'.arg) => last'.ret = last'.arg.v["_id"]]_vars

(* C7 witness: an insert of a document with a null identifier was refused
   on a store that holds documents. *)
C7_Witness ==
  /\ last.op = "insert_one" /\ last.raised
  /\ Has(last.arg, "_id")
  /\ data # <<>>

(* what a filter of the query asks of a document *)
DaysAsked(doc, q) ==
  (Has(q, "schedule_details.days") /\ Has(q.v["schedule_details.days"], "$in"))
    => /\ Has(doc, "schedule_details")
       /\ Has(doc.v["schedule_details"], "days")
       /\ Contains(doc.v["schedule_details"].v["days"],
                   q.v["schedule_details.days"].v["$in"].v[1])

StartAsked(doc, q) ==
  (Has(q, "schedule_details.start_time")
   /\ Has(q.v["schedule_details.start_time"], "$gte"))
    => /\ Has(doc, "schedule_details")
       /\ Has(doc.v["schedule_details"], "start_time")
       /\ ~StrLess(doc.v["schedule_details"].v["start_time"].v,
                   q.v["schedule_details.start_time"].v["$gte"].v)

EndAsked(doc, q) ==
  (Has(q, "schedule_details.end_time")
   /\ Has(q.v["schedule_details.end_time"], "$lte"))
    => /\ Has(doc, "schedule_details")
       /\ Has(doc.v["schedule_details"], "end_time")
       /\ ~StrLess(q.v["schedule_details.end_time"].v["$lte"].v,
                   doc.v["schedule_details"].v["end_time"].v)

Selected(d, q) ==
  SelectSeq(d, LAMBDA e : DaysAsked(e.v, q) /\ StartAsked(e.v, q) /\ EndAsked(e.v, q))

(* C8: find returns exactly the stored documents whose days contain the
   first $in value, whose start_time is >= the $gte value and whose end_time
   is <= the $lte value (each only when the filter is present), each once,
   with its identifier, in the order of the store. *)
C8_FindFilters ==
  (last.op = "find" /\ ~last.raised)
    => LET q   == IF last.arg = Null THEN EmptyDict ELSE last.arg
           sel == Selected(data, q)
       IN  last.ret = [i \in 1..Len(sel) |-> Put(sel[i].v, "_id", sel[i].k)]

DaysOf(doc) ==
  IF Has(doc, "schedule_details") /\ Has(doc.v["schedule_details"], "days")
  THEN LET days == doc.v["schedule_details"].v["days"].v
       IN  {days[j] : j \in 1..Len(days)}
  ELSE {}

AllDays(d) == UNION {DaysOf(d[i].v) : i \in 1..Len(d)}

(* C9: aggregate, whatever the pipeline, returns one {_id: day} entry for
   each distinct day of the stored schedule_details.days lists and no other
   entry, in ascending lexicographic order of the day, and does not change
   the store. *)
C9_Aggregate ==
  [][last'.op = "aggregate"
       => LET r == last'.ret
          IN  /\ data' = data
              /\ \A p \in Pipelines : aggregate(data', p) = r
              /\ {r[i] : i \in 1..Len(r)} = {DayEntry(day) : day \in AllDays(data')}
              /\ \A i \in 1..Len(r), j \in 1..Len(r) :
                   i < j => StrLess(r[i].v["_id"].v, r[j].v["_id"].v)]_vars

(* C9 witness: days [Monday, Friday] and [Friday] gave Friday, Monday. *)
C9_Witness ==
  /\ last.op = "aggregate"
  /\ Len(data) = 2
  /\ last.ret = <<DayEntry(Friday), DayEntry(Monday)>>

(* C10: count_documents with an absent or empty query is the number of
   identifiers inserted and not removed since, whatever inserts, updates and
   removals came before; with any query it is the length of find of that
   query. *)
C10_Count ==
  /\ count_documents(data, Null).ret = Cardinality(live)
  /\ count_documents(data, EmptyDict).ret = Cardinality(live)
  /\ \A q \in PlainQueries \cup ActivityQueries :
       LET counted == count_documents(data, q)
           found   == find(data, q)
       IN  /\ counted.raised = found.raised
           /\ ~found.raised => counted.ret = Len(found.ret)

(* C10 witness: count_documents({}) answered 1 on a store whose only
   document, under b, has been updated by a $push. *)
C10_Witness ==
  /\ last.op = "count_documents" /\ last.arg = EmptyDict /\ last.ret = 1
  /\ live = {b}
  /\ Has(Lookup(data, b), "tags") /\ Lookup(data, b).v["tags"] = List(<<a, b>>)

RECURSIVE Without(_, _)
Without(items, value) ==
  IF items = <<>> THEN <<>>
  ELSE IF Head(items) = value THEN Without(Tail(items), value)
  ELSE <<Head(items)>> \o Without(Tail(items), value)

(* C11: $pull removes every element equal to the given value from the named
   field's list, not only the first, keeps the other elements in their
   order, and leaves the document as it was when the named field is absent
   or holds no list. *)
C11_Pull ==
  [][(/\ last'.op = "update_one" /\ Stored(data, last'.arg[1])
      /\ Has(last'.arg[2], "$pull")
      /\ ~Has(last'.arg[2], "$push") /\ ~Has(last'.arg[2], "$set"))
       => LET k      == last'.arg[1].v["_id"]
              pull   == last'.arg[2].v["$pull"]
              before == Lookup(data, k)
              after  == Lookup(data', k)
          IN  /\ ~last'.raised
              /\ DOMAIN after.v = DOMAIN before.v
              /\ \A f \in DOMAIN before.v :
                   after.v[f] =
                     IF f \in DOMAIN pull.v /\ IsList(before.v[f])
                     THEN List(Without(before.v[f].v, pull.v[f]))
                     ELSE before.v[f]]_vars

(* C11 witness: pulling a from tags [a, b, a, x] left [b, x]. *)
C11_Witness ==
  /\ last.op = "update_one" /\ ~last.raised
  /\ last.arg = <<IdQuery(a), Map("$pull" :> Map("tags" :> a))>>
  /\ a \in Keys(data)
  /\ Lookup(data, a) = Map("tags" :> List(<<b, x>>))

Recognized == {"$push", "$pull", "$set"}

(* the update mapping without its unrecognized keys *)
OnlyRecognized(u) == Map([op \in DOMAIN u.v \cap Recognized |-> u.v[op]])

(* C12: update_one changes the stored document only through $push, $pull
   and $set.  An update mapping without any of them (or empty) raises
   nothing and leaves the store as it was; unrecognized keys next to
   recognized ones change nothing of the outcome; documents under other
   identifiers are never changed. *)
C12_OnlyRecognized ==
  [][last'.op = "update_one"
       => LET q == last'.arg[1]
              u == last'.arg[2]
              r == update_one(data, q, OnlyRecognized(u))
          IN  /\ DOMAIN u.v \cap Recognized = {}
                   => ~last'.raised /\ data' = data
              /\ data' = r.data
              /\ last'.raised = r.raised
              /\ ~r.raised => last'.ret = r.modified_count
              /\ Keys(data') = Keys(data)
              /\ \A j \in Keys(data) :
                   (~Has(q, "_id") \/ j # q.v["_id"])
                     => Lookup(data', j) = Lookup(data, j)]_vars

(* C12 witness: an update holding only $unset ran on a stored document with
   tags while another document is stored, and the tags are still there. *)
C12_Witness ==
  /\ last.op = "update_one" /\ ~last.raised /\ last.ret = 1
  /\ DOMAIN last.arg[2].v = {"$unset"}
  /\ Len(data) = 2
  /\ Has(Lookup(data, last.arg[1].v["_id"]), "tags")

(* C13: no operation changes a document's identifier.  update_one never
   changes the set of keys of the store, and after any operations, an
   update_one whose $set or $push names the identifier field among them,
   every document returned by find_one({_id: k}) or by find carries the key
   it is stored under as its identifier. *)
C13_IdentifierKept ==
  [][/\ last'.op = "update_one"
          => /\ Keys(data') = Keys(data)
             /\ [i \in 1..Len(data') |-> data'[i].k]
                  = [i \in 1..Len(data) |-> data[i].k]
     /\ last'.op = "find_one" /\ last'.ret # Null
          => last'.ret.v["_id"] = last'.arg.v["_id"]
     /\ \A k \in Keys(data') :
          LET found == find_one(data', IdQuery(k)).ret.val
          IN  found # Null => found.v["_id"] = k
     /\ LET all == find(data', Null).ret
        IN  /\ Len(all) = Len(data')
            /\ \A i \in 1..Len(all) :
                 /\ all[i].val.v["_id"] = data'[i].k
                 /\ Pop(all[i].val, "_id") = Pop(data'[i].v, "_id")]_vars

(* C13 witness: after $set {_id: x} on the document stored under a, whose
   body now holds x under "_id", find_one({_id: a}) returned identifier a. *)
C13_Witness ==
  /\ last.op = "find_one" /\ last.arg = IdQuery(a)
  /\ last.ret # Null /\ last.ret.v["_id"] = a
  /\ Has(Lookup(data, a), "_id") /\ Lookup(data, a).v["_id"] = x

(* C14: insert_one deep-copies its input.  insert_one leaves the caller's
   document as it was, identifier field included, and when the caller
   mutates that document afterwards, at the top or inside a nested mapping
   or list, the store does not change. *)
C14_InsertIsolation ==
  [][/\ (last'.op = "insert_one" /\ ~last'.raised)
          => /\ held'.ref.val = last'.arg
             /\ held'.ref.obj # "stored"
             /\ HasId(held'.ref.val)
             /\ Lookup(data', last'.ret) = Pop(last'.arg, "_id")
     /\ (last'.op = "mutate" /\ last'.aux = "insert_one")
          => /\ data' = data
             /\ \A q \in KeyQueries :
                  find_one(data', q).ret.val = find_one(data, q).ret.val
             /\ find(data', Null).ret = find(data, Null).ret]_vars

(* C14 witness: the caller appended a day to the nested days list of the
   document it had inserted, and the stored body still has the list that
   was inserted. *)
C14_Witness ==
  /\ last.op = "mutate" /\ last.aux = "insert_one"
  /\ last.arg.path = <<"schedule_details", "days">>
  /\ held.ref.val.v["_id"] \in Keys(data)
  /\ Has(Lookup(data, held.ref.val.v["_id"]), "schedule_details")
  /\ Has(Lookup(data, held.ref.val.v["_id"]).v["schedule_details"], "days")
  /\ Lookup(data, held.ref.val.v["_id"]).v["schedule_details"].v["days"]
       # held.ref.val.v["schedule_details"].v["days"]

(* C16: in every reachable state no stored document body holds the
   identifier field; the identifier is only the key of the mapping. *)
C16_NoIdInBody ==
  \A i \in 1..Len(data) : ~Has(data[i].v, "_id")

(* C17: copy-on-write at the update boundary.  After update_one stored a
   value through $set or $push, the caller mutating the value it passed in
   does not change the store, so find_one and find return what they
   returned right after the update. *)
C17_UpdateIsolation ==
  [][(last'.op = "mutate" /\ last'.aux = "update_one")
       => /\ data' = data
          /\ \A q \in KeyQueries :
               find_one(data', q).ret.val = find_one(data, q).ret.val]_vars

(* the parts of a query find supports: a days filter with a one-element
   $in, a start_time filter with $gte, an end_time filter with $lte *)
SupportedPart(q, f) ==
  CASE f = "schedule_details.days" ->
         Has(q.v[f], "$in") /\ Len(q.v[f].v["$in"].v) = 1
    [] f = "schedule_details.start_time" -> Has(q.v[f], "$gte")
    [] f = "schedule_details.end_time" -> Has(q.v[f], "$lte")
    [] OTHER -> FALSE

Supported(q) == Map([f \in {g \in DOMAIN q.v : SupportedPart(q, g)} |-> q.v[f]])

(* C18: find never surfaces an error for an unsupported query shape.  For
   every query (unknown fields, a supported field without the expected
   operator, a $in list that is empty or longer than one) and every store,
   find returns a list, the one it returns for the query without its
   unsupported parts. *)
C18_FindTolerant ==
  last.op = "find"
    => /\ ~last.raised
       /\ LET q      == IF last.arg = Null THEN EmptyDict ELSE last.arg
              wanted == find(data, Supported(q)).ret
          IN  last.ret = [i \in 1..Len(wanted) |-> wanted[i].val]

(* C15: only authenticated staff change announcements.  create_announcement,
   update_announcement and delete_announcement called with a username that
   is no identifier of the teachers collection fail with 401 and leave the
   announcements collection unchanged; every stored announcement has a
   created_by that is an identifier of the teachers collection. *)
C15_StaffOnly ==
  [][/\ (/\ last'.op \in {"create_announcement", "update_announcement",
                          "delete_announcement"}
         /\ last'.arg[1] \notin Keys(teachers_collection))
          => last'.raised /\ last'.aux = 401 /\ data' = data
     /\ (last'.op = "create_announcement" /\ ~last'.raised)
          => /\ last'.arg[1] \in Keys(teachers_collection)
             /\ last'.ret.v["created_by"] = last'.arg[1]
             /\ Lookup(data', last'.ret.v["_id"]).v["created_by"] = last'.arg[1]
     /\ \A i \in 1..Len(data') :
          data'[i].v.v["created_by"] \in Keys(teachers_collection)]_vars

(* C15 witness: student, no teacher, was refused the deletion of a stored
   announcement with 401 while a second announcement, created by the
   principal through create_announcement, is stored. *)
C15_Witness ==
  /\ last.op = "delete_announcement" /\ last.aux = 401
  /\ last.arg = <<student, b>>
  /\ Keys(data) = {a, b}
  /\ Lookup(data, b).v["created_by"] = principal

UpdatableFields == {"message", "start_date", "expiration_date"}

Supplied(announcement) == {f \in UpdatableFields : announcement.v[f] # Null}

Malformed(announcement) ==
  \E f \in Supplied(announcement) \cap {"start_date", "expiration_date"} :
    fromisoformat_raises(announcement.v[f])

(* C19: update_announcement is all-or-nothing and field-scoped.  When the
   announcement is not stored, a supplied date is malformed or no field is
   supplied, the call fails and the collection is unchanged; on success
   exactly the supplied fields among message, start_date and
   expiration_date have the new values, while created_by, created_at, the
   identifier, the other fields and the other announcements are unchanged,
   and the returned document is the one find_one returns next. *)
C19_UpdateAnnouncement ==
  [][last'.op = "update_announcement"
       => LET announcement_id == last'.arg[2]
              announcement    == last'.arg[3]
          IN  /\ (\/ announcement_id \notin Keys(data)
                  \/ Malformed(announcement)
                  \/ Supplied(announcement) = {}) => last'.raised
              /\ last'.raised => data' = data
              /\ ~last'.raised
                   => LET before == Lookup(data, announcement_id)
                          after  == Lookup(data', announcement_id)
                      IN  /\ [i \in 1..Len(data') |-> data'[i].k]
                               = [i \in 1..Len(data) |-> data[i].k]
                          /\ \A j \in Keys(data) \ {announcement_id} :
                               Lookup(data', j) = Lookup(data, j)
                          /\ DOMAIN after.v = DOMAIN before.v
                          /\ \A f \in DOMAIN after.v :
                               after.v[f] = IF f \in Supplied(announcement)
                                            THEN announcement.v[f]
                                            ELSE before.v[f]
                          /\ last'.ret = find_one(data', IdQuery(announcement_id)).ret.val
                          /\ last'.ret = Put(after, "_id", announcement_id)]_vars

(* C19 witness: the principal changed message and expiration_date of
   announcement a, its start_date, created_by and created_at are the initial
   ones, and a second announcement is stored. *)
C19_Witness ==
  /\ last.op = "update_announcement" /\ ~last.raised
  /\ last.arg = <<principal, a, Announcement(bye, Null, D0201)>>
  /\ Len(data) = 2
  /\ Lookup(data, a) =
       Map(("message" :> bye) @@ ("start_date" :> D0201)
           @@ ("expiration_date" :> D0201) @@ ("created_by" :> principal)
           @@ ("created_at" :> utcnow))

(* C20: a deleted announcement is never resurrected.  With the steps of
   update_announcement and delete_announcement interleaved, an identifier
   that is absent from the collection becomes present only through the
   insert_one of create_announcement; the update_one of an
   update_announcement that passed its existence check before the removal
   changes nothing. *)
C20_NoResurrection ==
  [][/\ \A k \in Ids :
          (k \notin Keys(data) /\ k \in Keys(data'))
            => /\ last'.op = "create_announcement" /\ ~last'.raised
               /\ last'.ret.v["_id"] = k
     /\ (/\ last'.op = "update_announcement" /\ last'.arg[1] = "update_one"
         /\ last'.arg[2] \notin Keys(data))
          => data' = data /\ last'.ret = 0]_vars

(* C20 witness: update_announcement for a, past its existence check, ran
   its update_one after delete_announcement had removed a: it modified
   nothing and a is still absent. *)
C20_Witness ==
  /\ last.op = "update_announcement" /\ last.arg = <<"update_one", a>>
  /\ last.ret = 0
  /\ a \notin Keys(data)
  /\ threads.update_announcement.pc = "return"
  /\ threads.delete_announcement.pc = "done"
  /\ threads.delete_announcement.status = 200
  /\ threads.delete_announcement.announcement_id = a

====
